---- MODULE Spec2Model ----
(***************************************************************************)
(* Model of src/intent_expansion_pipeline.py: IntentClassifier.classify    *)
(* (retry loop around one remote call), _parse_json_response (fence        *)
(* stripping and JSON decoding), _build_fallback_result and                *)
(* _rule_based_intent (keyword rules), and classify_batch (sequential      *)
(* list comprehension or ThreadPoolExecutor fan-out).                      *)
(*                                                                         *)
(* A text (a Python str) is a sequence of pieces.  Where the code looks    *)
(* inside a string (keyword search, lower-casing, the "api" test) the      *)
(* pieces are single characters; a literal the code only passes along or   *)
(* compares as a whole (a fence marker, a JSON document, the message of a  *)
(* runtime exception) is one piece.  None is the empty sequence <<>> and   *)
(* an optional value v is <<v>>.                                           *)
(***************************************************************************)
EXTENDS Integers, Sequences, FiniteSets, TLC

VARIABLES
    max_retries,        \* self.max_retries
    fallback_enabled,   \* self.fallback_enabled
    remote,             \* per request: the outcomes self.model.generate_content can have, call by call
    messages,           \* classify_batch argument: list of (history, message)
    parallel,           \* classify_batch argument
    max_workers,        \* classify_batch argument
    batch,              \* position of classify_batch: "idle", "seq", "par", "returned", "raised"
    pc,                 \* per request: position of its classify invocation
    attempts,           \* per request: classify's local `attempts`
    last_error,         \* per request: classify's local `last_error`
    response_text,      \* per request: classify's local `response_text`
    ncalls,             \* per request: generate_content calls made so far (history variable)
    ret,                \* per request: what classify returned or raised
    results,            \* the list classify_batch builds
    out,                \* what classify_batch returned or raised
    arg,                \* input of the function under test (function specifications)
    val                 \* its output, <<>> until it is applied

vars == <<max_retries, fallback_enabled, remote, messages, parallel, max_workers,
          batch, pc, attempts, last_error, response_text, ncalls, ret, results,
          out, arg, val>>

classifierVars == <<max_retries, fallback_enabled, remote, messages, parallel,
                    max_workers, batch, pc, attempts, last_error, response_text,
                    ncalls, ret, results, out>>

fnVars == <<arg, val>>

----------------------------------------------------------------------------
(* Texts *)

None == <<>>

\* str.lower() on one character; pieces that are not upper-case letters are kept
UpperToLower ==
    ("A" :> "a") @@ ("B" :> "b") @@ ("C" :> "c") @@ ("D" :> "d") @@ ("E" :> "e") @@
    ("F" :> "f") @@ ("G" :> "g") @@ ("H" :> "h") @@ ("I" :> "i") @@ ("J" :> "j") @@
    ("K" :> "k") @@ ("L" :> "l") @@ ("M" :> "m") @@ ("N" :> "n") @@ ("O" :> "o") @@
    ("P" :> "p") @@ ("Q" :> "q") @@ ("R" :> "r") @@ ("S" :> "s") @@ ("T" :> "t") @@
    ("U" :> "u") @@ ("V" :> "v") @@ ("W" :> "w") @@ ("X" :> "x") @@ ("Y" :> "y") @@
    ("Z" :> "z")

Lower(text) ==
    [i \in 1..Len(text) |->
        IF text[i] \in DOMAIN UpperToLower THEN UpperToLower[text[i]] ELSE text[i]]

\* Python's `sub in text`
Contains(sub, text) ==
    \E i \in 1..(Len(text) - Len(sub) + 1) : SubSeq(text, i, i + Len(sub) - 1) = sub

----------------------------------------------------------------------------
(* _rule_based_intent: the keyword table, in the order the dict literal     *)
(* lists it (a dict iterates in insertion order)                            *)

rules == <<
    [primary |-> "Logistics", secondary |-> "order_status", keywords |-> <<
        <<"w","h","e","r","e"," ","i","s"," ","m","y"," ","o","r","d","e","r">>,   \* where is my order
        <<"t","r","a","c","k">>,   \* track
        <<"t","r","a","c","k","i","n","g">>,   \* tracking
        <<"o","r","d","e","r"," ","s","t","a","t","u","s">>,   \* order status
        <<"n","o","t"," ","r","e","c","e","i","v","e","d">>,   \* not received
        <<"n","o","t"," ","d","e","l","i","v","e","r","e","d">>,   \* not delivered
        <<"p","e","n","d","i","n","g">>,   \* pending
        <<"k","a","h","a"," ","h","a","i">>   \* kaha hai
    >>],
    [primary |-> "Logistics", secondary |-> "order_delivered_but_not_received", keywords |-> <<
        <<"m","a","r","k","e","d"," ","d","e","l","i","v","e","r","e","d">>,   \* marked delivered
        <<"s","h","o","w","s"," ","d","e","l","i","v","e","r","e","d">>,   \* shows delivered
        <<"s","t","a","t","u","s"," ","d","e","l","i","v","e","r","e","d">>,   \* status delivered
        <<"d","e","l","i","v","e","r","e","d"," ","b","u","t"," ","n","o","t"," ","r","e","c","e","i","v","e","d">>   \* delivered but not received
    >>],
    [primary |-> "Logistics", secondary |-> "delivery_delay", keywords |-> <<
        <<"d","e","l","a","y","e","d">>,   \* delayed
        <<"d","e","l","a","y">>,   \* delay
        <<"l","a","t","e">>   \* late
    >>],
    [primary |-> "Logistics", secondary |-> "wrong_order", keywords |-> <<
        <<"w","r","o","n","g"," ","i","t","e","m">>,   \* wrong item
        <<"d","a","m","a","g","e","d">>,   \* damaged
        <<"b","r","o","k","e","n">>,   \* broken
        <<"m","i","s","s","i","n","g">>,   \* missing
        <<"e","x","c","h","a","n","g","e">>,   \* exchange
        <<"r","e","t","u","r","n">>   \* return
    >>],
    [primary |-> "Basic Interactions", secondary |-> "greetings", keywords |-> <<
        <<"h","i">>,   \* hi
        <<"h","e","l","l","o">>,   \* hello
        <<"h","e","y">>   \* hey
    >>],
    [primary |-> "Basic Interactions", secondary |-> "acknowledgment", keywords |-> <<
        <<"o","k">>,   \* ok
        <<"o","k","a","y">>,   \* okay
        <<"t","h","a","n","k","s">>,   \* thanks
        <<"t","h","a","n","k"," ","y","o","u">>   \* thank you
    >>],
    [primary |-> "Basic Interactions", secondary |-> "language_preference", keywords |-> <<
        <<"h","i","n","d","i">>,   \* hindi
        <<"t","a","m","i","l">>,   \* tamil
        <<"t","e","l","u","g","u">>,   \* telugu
        <<"k","a","n","n","a","d","a">>,   \* kannada
        <<"l","a","n","g","u","a","g","e">>   \* language
    >>]
>>

\* any(keyword in text for keyword in keywords)
AnyKeyword(keywords, text) ==
    \E k \in 1..Len(keywords) : Contains(keywords[k], text)

\* Faulty variant of ScanRules: the loop keeps going and the last matching rule wins
RECURSIVE ScanRulesLast(_, _)
ScanRulesLast(k, text) ==
    IF k > Len(rules) THEN None
    ELSE LET later == ScanRulesLast(k + 1, text)
         IN  IF later # None THEN later
             ELSE IF AnyKeyword(rules[k].keywords, text)
                  THEN <<rules[k].primary, rules[k].secondary>>
                  ELSE None

\* for (primary, secondary), keywords in rules.items(): return at the first hit
RECURSIVE ScanRules(_, _)
ScanRules(k, text) ==
    IF k > Len(rules) THEN None
    ELSE IF AnyKeyword(rules[k].keywords, text)
         THEN <<rules[k].primary, rules[k].secondary>>
         ELSE ScanRules(k + 1, text)

\* text = f"{conversation_history} {current_message}".lower()
FallbackText(current_message, conversation_history) ==
    Lower(conversation_history \o <<" ">> \o current_message)

\* Returns <<primary, secondary>>, or None when no rule matches
_rule_based_intent(current_message, conversation_history) ==
    ScanRules(1, FallbackText(current_message, conversation_history))

\* IntentResult(primary, secondary, reasoning); confidence is never set and
\* stays None in every result the program builds, so it is left out
IntentResult(primary, secondary, reasoning) ==
    [primary |-> primary, secondary |-> secondary, reasoning |-> reasoning]

\* Faulty variant of _build_fallback_result: the default pairs out_of_scope
\* with the primary of the rules
_build_fallback_result_mixed(error_reason, current_message, conversation_history) ==
    LET rule_match == IF current_message # <<>>
                      THEN _rule_based_intent(current_message, conversation_history)
                      ELSE None
    IN  IF rule_match # None
        THEN IntentResult(rule_match[1], rule_match[2],
                 <<"Rule-based fallback classification after error: ">> \o error_reason)
        ELSE IntentResult("Logistics", "out_of_scope",
                 <<"Fallback classification used due to error: ">> \o error_reason)

\* Faulty variant of _build_fallback_result: the default result does not say why
_build_fallback_result_silent(error_reason, current_message, conversation_history) ==
    LET rule_match == IF current_message # <<>>
                      THEN _rule_based_intent(current_message, conversation_history)
                      ELSE None
    IN  IF rule_match # None
        THEN IntentResult(rule_match[1], rule_match[2],
                 <<"Rule-based fallback classification after error: ">> \o error_reason)
        ELSE IntentResult("Special Categories", "out_of_scope",
                 <<"Fallback classification used due to error">>)

\* `if current_message:` and `conversation_history or ""`: None and "" are
\* both falsy and both the empty sequence here
_build_fallback_result(error_reason, current_message, conversation_history) ==
    LET rule_match == IF current_message # <<>>
                      THEN _rule_based_intent(current_message, conversation_history)
                      ELSE None
    IN  IF rule_match # None
        THEN IntentResult(rule_match[1], rule_match[2],
                 <<"Rule-based fallback classification after error: ">> \o error_reason)
        ELSE IntentResult("Special Categories", "out_of_scope",
                 <<"Fallback classification used due to error: ">> \o error_reason)

----------------------------------------------------------------------------
(* _parse_json_response *)

FENCE == "~~~"              \* stands for the three backquotes of a markdown fence
JSONTAG == "json"           \* FENCE followed by JSONTAG is the JSON-tagged marker
Whitespace == {" ", "\n", "\t"}

\* str.strip()
RECURSIVE LStrip(_)
LStrip(text) ==
    IF text # <<>> /\ Head(text) \in Whitespace THEN LStrip(Tail(text)) ELSE text

RECURSIVE RStrip(_)
RStrip(text) ==
    IF text # <<>> /\ text[Len(text)] \in Whitespace
    THEN RStrip(SubSeq(text, 1, Len(text) - 1))
    ELSE text

Strip(text) == RStrip(LStrip(text))

\* index of the first occurrence of sep in text, 0 when there is none
Find(sep, text) ==
    IF Contains(sep, text)
    THEN CHOOSE i \in 1..(Len(text) - Len(sep) + 1) :
            /\ SubSeq(text, i, i + Len(sep) - 1) = sep
            /\ \A j \in 1..(i - 1) : SubSeq(text, j, j + Len(sep) - 1) # sep
    ELSE 0

\* str.split(sep): the pieces between the occurrences of sep, left to right
RECURSIVE Split(_, _)
Split(text, sep) ==
    LET i == Find(sep, text)
    IN  IF i = 0 THEN <<text>>
        ELSE <<SubSeq(text, 1, i - 1)>> \o Split(SubSeq(text, i + Len(sep), Len(text)), sep)

\* The JSON documents of the model, each one piece of text, and what
\* json.loads makes of them.  A decoded value records its Python type, the
\* keys it has (a dict) and the values under the keys classify reads.
JsonValue(type, keys, primary, secondary, reasoning) ==
    [type |-> type, keys |-> keys, primary |-> primary, secondary |-> secondary,
     reasoning |-> reasoning]

DocTrack == "{primary: Logistics, secondary: order_status, reasoning: root intent is order status}"
DocGibberish == "{primary: Special Categories, secondary: gibberish, reasoning: Unintelligible message}"
DocOther == "{primary: Special Categories, secondary: out_of_scope}"
DocNoSecondary == "{primary: Logistics}"
DocNoPrimary == "{secondary: order_status}"
DocArray == "[]"
DocMixed == "{primary: Basic Interactions, secondary: order_status, reasoning: Customer greets and asks about the order}"
\* an object whose reasoning string is written out piece by piece:
\* OpenObj, the pieces of the string, CloseObj
OpenObj == "{primary: Logistics, secondary: order_status, reasoning: '"
CloseObj == "'}"
\* pieces that may stand inside a JSON string as they are
StringSafe == {FENCE, JSONTAG, DocArray, " "}

Documents ==
    (DocTrack :> JsonValue("dict", {"primary", "secondary", "reasoning"},
                    "Logistics", "order_status", <<"root intent is order status">>)) @@
    (DocGibberish :> JsonValue("dict", {"primary", "secondary", "reasoning"},
                    "Special Categories", "gibberish", <<"Unintelligible message">>)) @@
    (DocOther :> JsonValue("dict", {"primary", "secondary"},
                    "Special Categories", "out_of_scope", <<>>)) @@
    (DocNoSecondary :> JsonValue("dict", {"primary"}, "Logistics", "", <<>>)) @@
    (DocNoPrimary :> JsonValue("dict", {"secondary"}, "", "order_status", <<>>)) @@
    (DocArray :> JsonValue("list", {}, "", "", <<>>)) @@
    (DocMixed :> JsonValue("dict", {"primary", "secondary", "reasoning"},
                    "Basic Interactions", "order_status",
                    <<"Customer greets and asks about the order">>))

JSONDecodeError == [type |-> "JSONDecodeError", text |-> <<"Expecting value: line 1 column 1 (char 0)">>]
NoError == [type |-> "", text |-> <<>>]

\* json.loads: [error, value]; leading and trailing whitespace is skipped
json_loads(text) ==
    LET t == Strip(text)
    IN  IF Len(t) = 1 /\ t[1] \in DOMAIN Documents
        THEN [error |-> NoError, value |-> Documents[t[1]]]
        ELSE IF /\ Len(t) >= 2
                /\ t[1] = OpenObj
                /\ t[Len(t)] = CloseObj
                /\ \A i \in 2..(Len(t) - 1) : t[i] \in StringSafe
        THEN [error |-> NoError,
              value |-> JsonValue("dict", {"primary", "secondary", "reasoning"},
                            "Logistics", "order_status", SubSeq(t, 2, Len(t) - 1))]
        ELSE [error |-> JSONDecodeError, value |-> JsonValue("", {}, "", "", <<>>)]

\* Faulty variant of ExtractJson: any fence is looked for before the JSON-tagged one
ExtractJsonAnyFence(raw_text) ==
    IF Contains(<<FENCE>>, raw_text)
    THEN Strip(Split(Split(raw_text, <<FENCE>>)[2], <<FENCE>>)[1])
    ELSE raw_text

\* the if / elif that removes markdown code blocks: the text handed to json.loads
ExtractJson(raw_text) ==
    IF Contains(<<FENCE, JSONTAG>>, raw_text)
    THEN Strip(Split(Split(raw_text, <<FENCE, JSONTAG>>)[2], <<FENCE>>)[1])
    ELSE IF Contains(<<FENCE>>, raw_text)
    THEN Strip(Split(Split(raw_text, <<FENCE>>)[2], <<FENCE>>)[1])
    ELSE raw_text

_parse_json_response(raw_text) == json_loads(ExtractJson(raw_text))

----------------------------------------------------------------------------
(* The remote model: self.model.generate_content *)

\* the requests of the model, as classify_batch takes them: (history, message)
ReqTrack == <<<<"h","u","m","a","n",":"," ","H","o","w"," ","t","o"," ","t","r","a","c","k"," ","o","r","d","e","r","?">>,
              <<"9","8","7","6","5","4","3","2","1","0">>>>      \* ("human: How to track order?", "9876543210")
ReqGibberish == <<<<>>, <<"X","x","x","x","x","x","x","x","x","x">>>>      \* ("", "Xxxxxxxxxx")
Requests == {ReqTrack, ReqGibberish}

\* what user_prompt carries of the request
Prompt(current_message, conversation_history) ==
    [history |-> IF conversation_history # <<>> THEN conversation_history
                 ELSE <<"[No prior conversation]">>,
     message |-> current_message]

\* the document a working model answers the prompt with
AnswerDoc(prompt) ==
    IF prompt = Prompt(ReqTrack[2], ReqTrack[1]) THEN DocTrack
    ELSE IF prompt = Prompt(ReqGibberish[2], ReqGibberish[1]) THEN DocGibberish
    ELSE DocOther

ApiKeyError == [type |-> "RemoteError", text |-> <<"A","P","I"," ","k","e","y"," ","n","o","t"," ","v","a","l","i","d">>]      \* "API key not valid"
DeadlineError == [type |-> "RemoteError", text |-> <<"D","e","a","d","l","i","n","e"," ","E","x","c","e","e","d","e","d">>]    \* "Deadline Exceeded"

\* One call of generate_content: [error, text].  `how` is what the service
\* does with this call.
generate_content(how, prompt) ==
    CASE how = "text_answer"       -> [error |-> NoError, text |-> <<AnswerDoc(prompt)>>]
      [] how = "text_fenced"       -> [error |-> NoError,
                                  text |-> <<FENCE, JSONTAG, "\n", AnswerDoc(prompt), "\n", FENCE, "\n">>]
      [] how = "text_prose"        -> [error |-> NoError, text |-> <<"I cannot classify this.">>]
      [] how = "text_no_secondary" -> [error |-> NoError, text |-> <<DocNoSecondary>>]
      [] how = "text_array"        -> [error |-> NoError, text |-> <<DocArray>>]
      [] how = "text_mixed"        -> [error |-> NoError, text |-> <<DocMixed>>]
      [] how = "call_api_error"    -> [error |-> ApiKeyError, text |-> <<>>]
      [] how = "call_deadline"     -> [error |-> DeadlineError, text |-> <<>>]

AllOutcomes == {"text_answer", "text_fenced", "text_prose", "text_no_secondary", "text_array",
                "text_mixed", "call_api_error", "call_deadline"}
BatchOutcomes == {"text_answer", "text_prose", "call_deadline"}

----------------------------------------------------------------------------
(* classify *)

TypeError == [type |-> "TypeError", text |-> <<"list indices must be integers or slices, not str">>]
KeyError(key) == [type |-> "KeyError", text |-> <<key>>]    \* str(KeyError('k')) is "'k'"

NoResult == IntentResult("", "", <<>>)

\* IntentResult(primary=result_dict["primary"], secondary=result_dict["secondary"],
\*              reasoning=result_dict.get("reasoning", "")): [error, result]
BuildResult(result_dict) ==
    IF result_dict.type # "dict" THEN [error |-> TypeError, result |-> NoResult]
    ELSE IF "primary" \notin result_dict.keys
    THEN [error |-> KeyError("'primary'"), result |-> NoResult]
    ELSE IF "secondary" \notin result_dict.keys
    THEN [error |-> KeyError("'secondary'"), result |-> NoResult]
    ELSE [error |-> NoError,
          result |-> IntentResult(result_dict.primary, result_dict.secondary,
                         IF "reasoning" \in result_dict.keys THEN result_dict.reasoning
                         ELSE <<>>)]

\* the body of the try block for one answer of the service:
\* [error, result, text] where text is response.text.strip()
TryBody(response) ==
    IF response.error # NoError
    THEN [error |-> response.error, result |-> NoResult, text |-> <<>>]
    ELSE LET text == Strip(response.text)
             parsed == _parse_json_response(text)
         IN  IF parsed.error # NoError
             THEN [error |-> parsed.error, result |-> NoResult, text |-> text]
             ELSE LET built == BuildResult(parsed.value)
                  IN  [error |-> built.error, result |-> built.result, text |-> text]

\* the error classify raises when fallback is disabled
RaisedError(error, text) ==
    IF error # NoError
    THEN IF error.type = "JSONDecodeError"
         THEN [type |-> "ValueError", text |-> <<"Failed to parse JSON response: ">> \o text]
         ELSE IF error.type = "KeyError"
         THEN [type |-> "ValueError",
               text |-> <<"Missing required field in response: ">> \o error.text]
         ELSE IF \/ Contains(<<"A", "P", "I">>, error.text)
                 \/ Contains(<<"a", "p", "i">>, Lower(error.text))
         THEN [type |-> "Exception", text |-> <<"API Error: ">> \o error.text]
         ELSE [type |-> "Exception", text |-> <<"Error: ">> \o error.text]
    ELSE [type |-> "Exception", text |-> <<"Unknown classification error">>]

Returned(result) == [kind |-> "return", result |-> result, error |-> NoError]
Raised(error) == [kind |-> "raise", result |-> NoResult, error |-> error]
NotExited == [kind |-> "", result |-> NoResult, error |-> NoError]

\* what the service can do with the next call for request i: remote[i] lists
\* the outcomes call by call, and its last entry stands for every later call
Outcomes(i) ==
    remote[i][IF ncalls[i] + 1 <= Len(remote[i]) THEN ncalls[i] + 1 ELSE Len(remote[i])]

\* Faulty variant of LoopGuard: one attempt too many
LoopGuardExtra(n) == n <= max_retries + 1

\* the sum of a list of numbers
RECURSIVE Total(_)
Total(counts) == IF counts = <<>> THEN 0 ELSE Head(counts) + Total(Tail(counts))

\* Faulty variant of LoopGuard: the invocations of a batch count their failed
\* attempts in one shared counter
LoopGuardShared(n) == Total(attempts) <= max_retries

\* Faulty variant of LoopGuard: one attempt too few
LoopGuardStrict(n) == n < max_retries

\* while attempts <= self.max_retries
LoopGuard(n) == n <= max_retries

\* Faulty variant of Attempt: an answer that parses is returned only when no
\* earlier attempt failed; after a failure it counts as one more failure
AttemptDiscardsLateSuccess(i) ==
    /\ pc[i] = "loop"
    /\ LoopGuard(attempts[i])
    /\ \E how \in Outcomes(i) :
        LET response == generate_content(how, Prompt(messages[i][2], messages[i][1]))
            try == TryBody(response)
        IN  /\ ncalls' = [ncalls EXCEPT ![i] = @ + 1]
            /\ response_text' = [response_text EXCEPT
                                    ![i] = IF response.error = NoError THEN try.text ELSE @]
            /\ IF try.error = NoError /\ attempts[i] = 0
               THEN /\ ret' = [ret EXCEPT ![i] = Returned(try.result)]
                    /\ pc' = [pc EXCEPT ![i] = "exit"]
                    /\ UNCHANGED <<attempts, last_error>>
               ELSE /\ last_error' = [last_error EXCEPT
                                        ![i] = IF try.error = NoError THEN @ ELSE try.error]
                    /\ attempts' = [attempts EXCEPT ![i] = @ + 1]
                    /\ UNCHANGED <<ret, pc>>
    /\ UNCHANGED <<max_retries, fallback_enabled, remote, messages, parallel,
                   max_workers, batch, results, out, fnVars>>

\* Faulty variant of Attempt: last_error keeps the error of the first failed
\* attempt
AttemptKeepsFirstError(i) ==
    /\ pc[i] = "loop"
    /\ LoopGuard(attempts[i])
    /\ \E how \in Outcomes(i) :
        LET response == generate_content(how, Prompt(messages[i][2], messages[i][1]))
            try == TryBody(response)
        IN  /\ ncalls' = [ncalls EXCEPT ![i] = @ + 1]
            /\ response_text' = [response_text EXCEPT
                                    ![i] = IF response.error = NoError THEN try.text ELSE @]
            /\ IF try.error = NoError
               THEN /\ ret' = [ret EXCEPT ![i] = Returned(try.result)]
                    /\ pc' = [pc EXCEPT ![i] = "exit"]
                    /\ UNCHANGED <<attempts, last_error>>
               ELSE /\ last_error' = [last_error EXCEPT
                                        ![i] = IF @ = NoError THEN try.error ELSE @]
                    /\ attempts' = [attempts EXCEPT ![i] = @ + 1]
                    /\ UNCHANGED <<ret, pc>>
    /\ UNCHANGED <<max_retries, fallback_enabled, remote, messages, parallel,
                   max_workers, batch, results, out, fnVars>>

\* one iteration of the while loop of the classify invocation for request i
Attempt(i) ==
    /\ pc[i] = "loop"
    /\ LoopGuard(attempts[i])
    /\ \E how \in Outcomes(i) :
        LET response == generate_content(how, Prompt(messages[i][2], messages[i][1]))
            try == TryBody(response)
        IN  /\ ncalls' = [ncalls EXCEPT ![i] = @ + 1]
            /\ response_text' = [response_text EXCEPT
                                    ![i] = IF response.error = NoError THEN try.text ELSE @]
            /\ IF try.error = NoError
               THEN /\ ret' = [ret EXCEPT ![i] = Returned(try.result)]
                    /\ pc' = [pc EXCEPT ![i] = "exit"]
                    /\ UNCHANGED <<attempts, last_error>>
               ELSE /\ last_error' = [last_error EXCEPT ![i] = try.error]
                    /\ attempts' = [attempts EXCEPT ![i] = @ + 1]
                    /\ UNCHANGED <<ret, pc>>
    /\ UNCHANGED <<max_retries, fallback_enabled, remote, messages, parallel,
                   max_workers, batch, results, out, fnVars>>

\* the code after the loop: all attempts failed
Exhausted(i) ==
    /\ pc[i] = "loop"
    /\ ~LoopGuard(attempts[i])
    /\ ret' = [ret EXCEPT ![i] =
                IF fallback_enabled
                THEN Returned(_build_fallback_result(
                         IF last_error[i] # NoError THEN last_error[i].text
                         ELSE <<"Unknown error">>,
                         messages[i][2], messages[i][1]))
                ELSE Raised(RaisedError(last_error[i], response_text[i]))]
    /\ pc' = [pc EXCEPT ![i] = "exit"]
    /\ UNCHANGED <<max_retries, fallback_enabled, remote, messages, parallel,
                   max_workers, batch, attempts, last_error, response_text, ncalls,
                   results, out, fnVars>>

----------------------------------------------------------------------------
(* classify_batch *)

Busy == {i \in 1..Len(messages) : pc[i] \in {"loop", "exit"}}
Queued == {i \in 1..Len(messages) : pc[i] = "queued"}

\* entry: the sequential path, or the slots and the submission of every task
CallBatch ==
    /\ batch = "idle"
    /\ IF ~parallel \/ Len(messages) = 1
       THEN /\ batch' = "seq"
            /\ results' = <<>>
            /\ UNCHANGED pc
       ELSE /\ batch' = "par"
            /\ results' = [i \in 1..Len(messages) |-> None]
            /\ pc' = [i \in 1..Len(messages) |-> "queued"]
    /\ UNCHANGED <<max_retries, fallback_enabled, remote, messages, parallel,
                   max_workers, attempts, last_error, response_text, ncalls, ret,
                   out, fnVars>>

\* Faulty variant of SeqGuard: classify is called for any request not yet started
SeqGuardEager(i) == i \in 1..Len(messages)

\* the request the list comprehension is at: the one after those collected
SeqGuard(i) == i = Len(results) + 1

\* the list comprehension calls classify for the next request
SeqStart(i) ==
    /\ batch = "seq"
    /\ pc[i] = "idle"
    /\ SeqGuard(i)
    /\ pc' = [pc EXCEPT ![i] = "loop"]
    /\ UNCHANGED <<max_retries, fallback_enabled, remote, messages, parallel,
                   max_workers, batch, attempts, last_error, response_text, ncalls,
                   ret, results, out, fnVars>>

\* the list comprehension takes what classify returned; an error classify
\* raises leaves classify_batch
SeqCollect(i) ==
    /\ batch = "seq"
    /\ pc[i] = "exit"
    /\ pc' = [pc EXCEPT ![i] = "done"]
    /\ IF ret[i].kind = "return"
       THEN /\ results' = Append(results, <<ret[i].result>>)
            /\ UNCHANGED <<batch, out>>
       ELSE /\ batch' = "raised"
            /\ out' = [kind |-> "raise", value |-> <<>>, error |-> ret[i].error]
            /\ UNCHANGED results
    /\ UNCHANGED <<max_retries, fallback_enabled, remote, messages, parallel,
                   max_workers, attempts, last_error, response_text, ncalls, ret,
                   fnVars>>

\* [res for res in results if res is not None]
DropNone(slots) ==
    LET filled == SelectSeq(slots, LAMBDA s : s # None)
    IN  [k \in 1..Len(filled) |-> filled[k][1]]

SeqReturn ==
    /\ batch = "seq"
    /\ Len(results) = Len(messages)
    /\ batch' = "returned"
    /\ out' = [kind |-> "return", value |-> [k \in 1..Len(results) |-> results[k][1]],
               error |-> NoError]
    /\ UNCHANGED <<max_retries, fallback_enabled, remote, messages, parallel,
                   max_workers, pc, attempts, last_error, response_text, ncalls,
                   ret, results, fnVars>>

\* Faulty variant of WorkerGuard: a thread that has run a task takes no other
WorkerGuardNoReuse(i) ==
    /\ Cardinality({j \in 1..Len(messages) : pc[j] \in {"loop", "exit", "done"}}) < max_workers
    /\ \A j \in Queued : i <= j

\* Faulty variant of WorkerGuard: a thread per task, whatever max_workers says
WorkerGuardUnbounded(i) == \A j \in Queued : i <= j

\* ThreadPoolExecutor(max_workers): a free thread takes the oldest queued task
WorkerGuard(i) ==
    /\ Cardinality(Busy) < max_workers
    /\ \A j \in Queued : i <= j

WorkerStart(i) ==
    /\ batch = "par"
    /\ pc[i] = "queued"
    /\ WorkerGuard(i)
    /\ pc' = [pc EXCEPT ![i] = "loop"]
    /\ UNCHANGED <<max_retries, fallback_enabled, remote, messages, parallel,
                   max_workers, batch, attempts, last_error, response_text, ncalls,
                   ret, results, out, fnVars>>

\* Faulty variant of WorkerSlot: results are placed in the order the workers finish
WorkerSlotByCompletion(idx) ==
    Cardinality({j \in 1..Len(messages) : pc[j] = "done"}) + 1

\* Faulty variant of WorkerSlot: the closure sees the loop's last idx
WorkerSlotLateBinding(idx) == Len(messages)

\* the slot _worker(idx, ...) assigns
WorkerSlot(idx) == idx

\* _worker: results[idx] = self.classify(...), or the fallback result built
\* from the exception classify raised
WorkerStore(i) ==
    /\ batch = "par"
    /\ pc[i] = "exit"
    /\ results' = [results EXCEPT ![WorkerSlot(i)] =
                    IF ret[i].kind = "return"
                    THEN <<ret[i].result>>
                    ELSE <<_build_fallback_result(ret[i].error.text,
                                                  messages[i][2], messages[i][1])>>]
    /\ pc' = [pc EXCEPT ![i] = "done"]
    /\ UNCHANGED <<max_retries, fallback_enabled, remote, messages, parallel,
                   max_workers, batch, attempts, last_error, response_text, ncalls,
                   ret, out, fnVars>>

\* leaving the with block (every future done), then the return
ParReturn ==
    /\ batch = "par"
    /\ \A i \in 1..Len(messages) : pc[i] = "done"
    /\ batch' = "returned"
    /\ out' = [kind |-> "return", value |-> DropNone(results), error |-> NoError]
    /\ UNCHANGED <<max_retries, fallback_enabled, remote, messages, parallel,
                   max_workers, pc, attempts, last_error, response_text, ncalls,
                   ret, results, fnVars>>

----------------------------------------------------------------------------
(* Specifications *)

MaxBatch == 2       \* longest list of requests
MaxRetries == 1     \* largest max_retries
MaxWorkers == 2     \* largest max_workers

\* the lists of requests: the two requests in turn, starting with either
Batches ==
    {[i \in 1..n |-> IF (i + k) % 2 = 0 THEN ReqTrack ELSE ReqGibberish] :
        n \in 0..MaxBatch, k \in 0..1}

NoOut == [kind |-> "", value |-> <<>>, error |-> NoError]

\* the locals of the classify invocations of a batch of n requests, before any runs
FreshCalls(n) ==
    /\ attempts = [i \in 1..n |-> 0]
    /\ last_error = [i \in 1..n |-> NoError]
    /\ response_text = [i \in 1..n |-> <<>>]
    /\ ncalls = [i \in 1..n |-> 0]
    /\ ret = [i \in 1..n |-> NotExited]

FnIdle == arg = <<>> /\ val = <<>>

\* a classifier and one call of classify_batch
Init ==
    /\ max_retries \in 0..MaxRetries
    /\ fallback_enabled \in BOOLEAN
    /\ messages \in Batches
    /\ remote = [i \in 1..Len(messages) |-> <<BatchOutcomes>>]
    /\ parallel \in BOOLEAN
    /\ max_workers \in 1..MaxWorkers
    /\ batch = "idle"
    /\ pc = [i \in 1..Len(messages) |-> "idle"]
    /\ FreshCalls(Len(messages))
    /\ results = <<>>
    /\ out = NoOut
    /\ FnIdle

Next ==
    \/ CallBatch
    \/ \E i \in 1..Len(messages) : SeqStart(i)
    \/ \E i \in 1..Len(messages) : SeqCollect(i)
    \/ SeqReturn
    \/ \E i \in 1..Len(messages) : WorkerStart(i)
    \/ \E i \in 1..Len(messages) : WorkerStore(i)
    \/ ParReturn
    \/ \E i \in 1..Len(messages) : Attempt(i)
    \/ \E i \in 1..Len(messages) : Exhausted(i)

Spec == Init /\ [][Next]_vars

\* the service fails the first k calls for a request (the call fails, or it
\* returns prose, in turn) and answers from then on
FailThenAnswer(k) ==
    [a \in 1..(k + 1) |->
        IF a > k THEN {"text_answer"}
        ELSE IF a % 2 = 1 THEN {"call_deadline"} ELSE {"text_prose"}]

\* a classifier and one call of classify_batch, the outcome of each call of
\* the service fixed beforehand for every request
InitScripted ==
    /\ max_retries \in 0..MaxRetries
    /\ fallback_enabled \in BOOLEAN
    /\ messages \in Batches
    /\ remote \in [1..Len(messages) -> {FailThenAnswer(k) : k \in 0..(MaxRetries + 1)}]
    /\ parallel \in BOOLEAN
    /\ max_workers \in 1..MaxWorkers
    /\ batch = "idle"
    /\ pc = [i \in 1..Len(messages) |-> "idle"]
    /\ FreshCalls(Len(messages))
    /\ results = <<>>
    /\ out = NoOut
    /\ FnIdle

SpecScripted == InitScripted /\ [][Next]_vars

\* The steps of the invocation for request i, by the counters they move: a
\* call of the service returns or fails (every Attempt(i) step and no other
\* adds one to ncalls[i]), the loop is left after the last failure
\* (Exhausted(i)), the worker stores (WorkerStore(i)).  Each is enabled exactly
\* when the action it stands for is.
CallEnds(i) ==
    /\ i \in 1..Len(messages)
    /\ pc[i] = "loop"
    /\ LoopGuard(attempts[i])
    /\ ncalls' = [ncalls EXCEPT ![i] = @ + 1]

LoopEnds(i) ==
    /\ i \in 1..Len(messages)
    /\ pc[i] = "loop"
    /\ ~LoopGuard(attempts[i])
    /\ pc' = [pc EXCEPT ![i] = "exit"]

WorkerEnds(i) ==
    /\ i \in 1..Len(messages)
    /\ batch = "par"
    /\ pc[i] = "exit"
    /\ pc' = [pc EXCEPT ![i] = "done"]

\* the calling thread runs on; a free thread of the pool takes the next task;
\* every thread that runs classify runs on, and every call of the service
\* returns or fails
Fairness ==
    /\ WF_vars(CallBatch \/ SeqReturn \/ ParReturn)
    /\ WF_vars(\E i \in 1..Len(messages) : SeqStart(i) \/ SeqCollect(i))
    /\ WF_vars(\E i \in 1..Len(messages) : WorkerStart(i))
    /\ \A i \in 1..MaxBatch :
        /\ WF_ncalls(CallEnds(i))
        /\ WF_pc(LoopEnds(i))
        /\ WF_pc(WorkerEnds(i))

\* one call of classify_batch under these conditions
SpecLive == Init /\ [][Next]_vars /\ Fairness

\* a classifier and one direct call of classify
InitClassify ==
    /\ max_retries \in 0..MaxRetries
    /\ fallback_enabled \in BOOLEAN
    /\ remote = <<<<AllOutcomes>>>>
    /\ messages \in {<<r>> : r \in Requests}
    /\ parallel = FALSE
    /\ max_workers = 1
    /\ batch = "direct"
    /\ pc = <<"loop">>
    /\ FreshCalls(1)
    /\ results = <<>>
    /\ out = NoOut
    /\ FnIdle

NextClassify ==
    \/ Attempt(1)
    \/ Exhausted(1)

SpecClassify == InitClassify /\ [][NextClassify]_vars

\* the scripts of n calls over a set of outcomes: what each call in turn does
Scripts(outcomes, n) == {[k \in 1..n |-> {s[k]}] : s \in [1..n -> outcomes]}

\* a classifier and one direct call of classify, the outcome of each call of
\* the service fixed beforehand
InitClassifyScripted ==
    /\ max_retries \in 0..MaxRetries
    /\ fallback_enabled \in BOOLEAN
    /\ messages \in {<<r>> : r \in Requests}
    /\ remote \in {<<s>> : s \in Scripts(AllOutcomes, MaxRetries + 1)}
    /\ parallel = FALSE
    /\ max_workers = 1
    /\ batch = "direct"
    /\ pc = <<"loop">>
    /\ FreshCalls(1)
    /\ results = <<>>
    /\ out = NoOut
    /\ FnIdle

SpecClassifyScripted == InitClassifyScripted /\ [][NextClassify]_vars

\* no classifier is running (function specifications)
ClassifierIdle ==
    /\ max_retries = 0
    /\ fallback_enabled = TRUE
    /\ remote = <<>>
    /\ messages = <<>>
    /\ parallel = FALSE
    /\ max_workers = 1
    /\ batch = "none"
    /\ pc = <<>>
    /\ FreshCalls(0)
    /\ results = <<>>
    /\ out = NoOut

\* The fallback resolver on its own: _rule_based_intent and
\* _build_fallback_result applied to requests made of a few words.
MaxWords == 2       \* words in history and message together

Vocabulary == {
    <<"H","i">>,    \* Hi
    <<"T","a","m","i","l">>,    \* Tamil
    <<"O","K">>,    \* OK
    <<"b","r","o","k","e","n">>,    \* broken
    <<"T","r","a","c","k">>,    \* Track
    <<"d","e","l","a","y","e","d">>,    \* delayed
    <<"X","x">>,    \* Xx
    <<"s","h","o","w","s"," ","d","e","l","i","v","e","r","e","d">>,    \* shows delivered
    <<"t","h","a","n","k">>,    \* thank
    <<"y","o","u">>    \* you
}

RECURSIVE Join(_)
Join(words) ==
    IF words = <<>> THEN <<>>
    ELSE IF Len(words) = 1 THEN words[1]
    ELSE words[1] \o <<" ">> \o Join(Tail(words))

ErrorReasons == {DeadlineError.text, KeyError("'primary'").text}

FallbackInputs ==
    UNION {
        {[history |-> Join(SubSeq(w, 1, k)),
          message |-> Join(SubSeq(w, k + 1, Len(w))),
          error_reason |-> e] : k \in 0..Len(w), e \in ErrorReasons}
        : w \in UNION {[1..n -> Vocabulary] : n \in 0..MaxWords}}

InitFallback ==
    /\ ClassifierIdle
    /\ arg \in FallbackInputs
    /\ val = [match |-> <<>>, result |-> <<>>]

CallRuleBasedIntent ==
    /\ val.match = <<>>
    /\ val' = [val EXCEPT !.match = <<_rule_based_intent(arg.message, arg.history)>>]
    /\ UNCHANGED <<arg, classifierVars>>

CallBuildFallbackResult ==
    /\ val.result = <<>>
    /\ val' = [val EXCEPT !.result =
                <<_build_fallback_result(arg.error_reason, arg.message, arg.history)>>]
    /\ UNCHANGED <<arg, classifierVars>>

NextFallback ==
    \/ CallRuleBasedIntent
    \/ CallBuildFallbackResult

SpecFallback == InitFallback /\ [][NextFallback]_vars

\* The response parser on its own, applied to every text of a few pieces.
MaxTextLen == 6     \* pieces in a response text

ParseAlphabet == {FENCE, JSONTAG, DocTrack, DocArray, OpenObj, CloseObj}

ResponseTexts == UNION {[1..n -> ParseAlphabet] : n \in 0..MaxTextLen}

InitParse ==
    /\ ClassifierIdle
    /\ arg \in ResponseTexts
    /\ val = <<>>

CallParse ==
    /\ val = <<>>
    /\ val' = <<[decoded |-> ExtractJson(arg), parsed |-> _parse_json_response(arg)]>>
    /\ UNCHANGED <<arg, classifierVars>>

NextParse == CallParse

SpecParse == InitParse /\ [][NextParse]_vars

----------------------------------------------------------------------------
(* Properties *)

\* classify_batch took the executor path
ParallelMode == parallel /\ Len(messages) # 1

\* the classify invocation for request i is over and every one of its
\* attempts failed: as many failures counted as calls made
AllFailed(i) == pc[i] \in {"exit", "done"} /\ attempts[i] = ncalls[i]

FallbackPrefixes == {"Rule-based fallback classification after error: ",
                     "Fallback classification used due to error: "}

FallbackTagged(res) == res.reasoning # <<>> /\ res.reasoning[1] \in FallbackPrefixes

\* the result a well-formed answer of the service to request req gives
RemoteAnswer(req) ==
    LET d == Documents[AnswerDoc(Prompt(req[2], req[1]))]
    IN  IntentResult(d.primary, d.secondary, d.reasoning)

\* the pair the keyword rules give request req
FallbackPair(req) ==
    LET m == _rule_based_intent(req[2], req[1])
    IN  IF req[2] # <<>> /\ m # None THEN m ELSE <<"Special Categories", "out_of_scope">>

\* res is a result for request req: the service's answer to it, or a
\* fallback result with the pair its text gives
Pertains(res, req) ==
    \/ res = RemoteAnswer(req)
    \/ FallbackTagged(res) /\ <<res.primary, res.secondary>> = FallbackPair(req)

\* C1: whenever classify_batch returns, in sequential and in parallel mode and
\* whatever order the workers finished in, the returned list has one entry per
\* request and entry i is the result computed from request i.
C1_ResultsMirrorRequests ==
    batch = "returned" =>
        /\ out.kind = "return"
        /\ Len(out.value) = Len(messages)
        /\ \A i \in 1..Len(messages) :
            /\ Pertains(out.value[i], messages[i])
            /\ ret[i].kind = "return" => out.value[i] = ret[i].result

C1_Witness ==
    /\ batch = "returned"
    /\ ParallelMode
    /\ \E i, j \in 1..Len(messages) :
        /\ i < j
        /\ ncalls[i] > ncalls[j]
        /\ FallbackTagged(out.value[i])
        /\ out.value[j] = RemoteAnswer(messages[j])

\* C2: with fallback enabled, a classify invocation whose attempts all fail
\* has made exactly max_retries + 1 calls of the service, returns the fallback
\* resolver's result for its request, and raises nothing.
C2_FallbackAfterAllAttempts ==
    /\ fallback_enabled => ret[1].kind # "raise"
    /\ (pc[1] = "exit" /\ fallback_enabled /\ attempts[1] = ncalls[1]) =>
        /\ ncalls[1] = max_retries + 1
        /\ ret[1].kind = "return"
        /\ FallbackTagged(ret[1].result)
        /\ <<ret[1].result.primary, ret[1].result.secondary>> = FallbackPair(messages[1])

C2_Witness ==
    /\ pc[1] = "exit"
    /\ fallback_enabled
    /\ max_retries >= 1
    /\ attempts[1] = ncalls[1]
    /\ ret[1].kind = "return"

\* the kind of error classify raised: ValueError is the parse kind, the
\* "API Error: ..." exception the transport kind, any other the unknown kind
RaisedKind(error) ==
    IF error.type = "ValueError" THEN "parse"
    ELSE IF error.text # <<>> /\ error.text[1] = "API Error: " THEN "transport"
    ELSE "unknown"

\* the kind of failure of an attempt: the call of the service failed, or it
\* returned and its output was bad
FailureKind(error) ==
    IF error.type = "RemoteError" THEN "transport"
    ELSE IF error.type \in {"JSONDecodeError", "KeyError", "TypeError"} THEN "parse"
    ELSE "unknown"

\* C3: with fallback disabled, a classify invocation whose attempts all fail
\* raises after exactly max_retries + 1 attempts, and the kind of the raised
\* error is the kind of the underlying failure (parse, transport, unknown).
C3_RaisedKindMatchesFailure ==
    (pc[1] = "exit" /\ ~fallback_enabled /\ attempts[1] = ncalls[1]) =>
        /\ ncalls[1] = max_retries + 1
        /\ ret[1].kind = "raise"
        /\ RaisedKind(ret[1].error) = FailureKind(last_error[1])

\* the reasoning names why request i failed: the last error's text, or the
\* text of the error classify raised from it
CarriesReason(res, i) ==
    \/ Contains(last_error[i].text, res.reasoning)
    \/ Contains(RaisedError(last_error[i], response_text[i]).text, res.reasoning)

\* C4: classify_batch never aborts because of one item, in either mode and
\* for either value of fallback_enabled: an item whose attempts all fail gets a
\* fallback result carrying the failure reason, and every item gets a result.
C4_BatchNeverAborts ==
    /\ batch # "raised"
    /\ batch = "returned" =>
        /\ Len(out.value) = Len(messages)
        /\ \A i \in 1..Len(messages) :
            AllFailed(i) => FallbackTagged(out.value[i]) /\ CarriesReason(out.value[i], i)

\* every call of the service for request i failed: all attempts failed and no
\* call ever returned a text (response_text is assigned whenever a call
\* returns, and the service returns no empty text)
RemoteCallsAllFailed(i) == AllFailed(i) /\ response_text[i] = <<>>

\* C5 as stated: in parallel mode the items whose remote calls fail
\* permanently are exactly the items with fallback-tagged reasoning, and every
\* other item has the remote-sourced result of its own request.
C5_OnlyRemoteFailuresFallBack ==
    (batch = "returned" /\ ParallelMode) =>
        /\ Len(out.value) = Len(messages)
        /\ \A i \in 1..Len(messages) :
            /\ RemoteCallsAllFailed(i) <=> FallbackTagged(out.value[i])
            /\ ~RemoteCallsAllFailed(i) => out.value[i] = RemoteAnswer(messages[i])

\* C5 amended: in parallel mode the items all of whose attempts fail (the call
\* failed or its response did not parse) are exactly the items with
\* fallback-tagged reasoning, and every other item has the remote-sourced
\* result of its own request, in every interleaving.
C5_FailureStaysInItsSlot ==
    (batch = "returned" /\ ParallelMode) =>
        /\ Len(out.value) = Len(messages)
        /\ \A i \in 1..Len(messages) :
            /\ AllFailed(i) <=> FallbackTagged(out.value[i])
            /\ ~AllFailed(i) => out.value[i] = RemoteAnswer(messages[i])

C5_Witness ==
    /\ batch = "returned"
    /\ ParallelMode
    /\ \E i, j \in 1..Len(messages) :
        /\ AllFailed(i)
        /\ last_error[i].type = "JSONDecodeError"
        /\ ~AllFailed(j)
        /\ ~FallbackTagged(out.value[j])

\* C6: in parallel mode at most max_workers classify invocations are in
\* progress in any state; every other request is not started or finished.
C6_AtMostMaxWorkers ==
    batch = "par" =>
        /\ Cardinality({i \in 1..Len(messages) : pc[i] \in {"loop", "exit"}}) <= max_workers
        /\ \A i \in 1..Len(messages) : pc[i] \in {"queued", "loop", "exit", "done"}

C6_Witness ==
    /\ batch = "par"
    /\ Len(messages) > max_workers
    /\ Cardinality({i \in 1..Len(messages) : pc[i] = "loop"}) = max_workers
    /\ \E i \in 1..Len(messages) : pc[i] = "queued"

\* the priority order of the rules, by secondary
C7_Order == <<"order_status", "order_delivered_but_not_received", "delivery_delay",
              "wrong_order", "greetings", "acknowledgment", "language_preference">>

C7_Rule(secondary) == rules[CHOOSE k \in 1..Len(rules) : rules[k].secondary = secondary]

C7_Matches(secondary, text) ==
    \E n \in 1..Len(C7_Rule(secondary).keywords) :
        Contains(C7_Rule(secondary).keywords[n], text)

\* the pair of the earliest rule of C7_Order with a keyword in text
C7_Winner(text) ==
    IF \E k \in 1..Len(C7_Order) : C7_Matches(C7_Order[k], text)
    THEN LET k == CHOOSE k \in 1..Len(C7_Order) :
                    /\ C7_Matches(C7_Order[k], text)
                    /\ \A j \in 1..(k - 1) : ~C7_Matches(C7_Order[j], text)
         IN  <<C7_Rule(C7_Order[k]).primary, C7_Order[k]>>
    ELSE None

C7_Text == Lower(arg.history \o <<" ">> \o arg.message)

\* C7: the rules are tried in the fixed order order_status,
\* order_delivered_but_not_received, delivery_delay, wrong_order, greetings,
\* acknowledgment, language_preference over the lower-cased history and
\* message (joined by one space); the earliest rule with a keyword occurring
\* as a substring gives the pair, also when several rules match.
C7_FirstRuleWins ==
    /\ Len(rules) = Len(C7_Order)
    /\ val.match # <<>> => val.match[1] = C7_Winner(C7_Text)
    /\ (val.result # <<>> /\ arg.message # <<>> /\ C7_Winner(C7_Text) # None) =>
        <<val.result[1].primary, val.result[1].secondary>> = C7_Winner(C7_Text)

C7_Witness ==
    /\ val.match # <<>>
    /\ val.match[1] # None
    /\ Cardinality({k \in 1..Len(C7_Order) : C7_Matches(C7_Order[k], C7_Text)}) >= 2

\* C8: when no rule matches the request text the fallback resolver returns
\* ("Special Categories", "out_of_scope") and its reasoning contains the text
\* of the error that triggered the fallback.
C8_DefaultNamesTheError ==
    (val.result # <<>> /\ \A k \in 1..Len(rules) : ~AnyKeyword(rules[k].keywords, C7_Text)) =>
        /\ val.result[1].primary = "Special Categories"
        /\ val.result[1].secondary = "out_of_scope"
        /\ Contains(arg.error_reason, val.result[1].reasoning)

C8_Witness ==
    /\ val.result # <<>>
    /\ arg.message # <<>>
    /\ \A k \in 1..Len(rules) : ~AnyKeyword(rules[k].keywords, C7_Text)
    /\ val.result[1].secondary = "out_of_scope"

\* the text of a call that returned is not valid JSON, or decodes to
\* something that does not provide both primary and secondary
BadOutput(text) ==
    LET p == json_loads(ExtractJson(text))
    IN  \/ p.error # NoError
        \/ p.value.type # "dict"
        \/ ~({"primary", "secondary"} \subseteq p.value.keys)

\* C9: a response text that is not valid JSON, or decodes to JSON without both
\* primary and secondary (a JSON value that is no object included), is a
\* parse-kind failure: retried up to the limit and, when it persists with
\* fallback disabled, raised to the caller as a parse-kind error.
C9_BadOutputIsParseError ==
    (/\ pc[1] = "exit"
     /\ ~fallback_enabled
     /\ attempts[1] = ncalls[1]
     /\ last_error[1].type # "RemoteError"
     /\ BadOutput(response_text[1])) =>
        /\ ncalls[1] = max_retries + 1
        /\ ret[1].kind = "raise"
        /\ RaisedKind(ret[1].error) = "parse"

\* where the first JSON-tagged marker, and the first fence from j on, stand
TagAt(t, i) == i + 1 <= Len(t) /\ t[i] = FENCE /\ t[i + 1] = JSONTAG
HasTaggedFence(t) == \E i \in 1..Len(t) : TagAt(t, i)
FirstTaggedFence(t) ==
    CHOOSE i \in 1..Len(t) : TagAt(t, i) /\ \A j \in 1..(i - 1) : ~TagAt(t, j)
HasFence(t) == \E i \in 1..Len(t) : t[i] = FENCE
FenceFrom(t, j) ==
    IF \E k \in j..Len(t) : t[k] = FENCE
    THEN CHOOSE k \in j..Len(t) : t[k] = FENCE /\ \A m \in j..(k - 1) : t[m] # FENCE
    ELSE Len(t) + 1
\* the content of the block that starts at j: up to the next fence or the end
BlockFrom(t, j) == SubSeq(t, j, FenceFrom(t, j) - 1)

\* the text the parser is to decode, by precedence
SelectedText(t) ==
    IF HasTaggedFence(t) THEN BlockFrom(t, FirstTaggedFence(t) + 2)
    ELSE IF HasFence(t) THEN BlockFrom(t, FenceFrom(t, 1) + 1)
    ELSE t

C10_Precedence ==
    /\ val[1].decoded = (IF HasFence(arg) THEN Strip(SelectedText(arg)) ELSE arg)
    /\ val[1].parsed = json_loads(SelectedText(arg))

\* the text of a JSON object, and the same object in a JSON-tagged fence
IsJsonObject(t) == json_loads(t).error = NoError /\ json_loads(t).value.type = "dict"
Fenced(t) == <<FENCE, JSONTAG, "\n">> \o t \o <<"\n", FENCE>>

\* C10 as stated: the parser decodes the content of the first JSON-tagged
\* block, else of the first fenced block, else the raw text; and so every JSON
\* object in a JSON-tagged fence parses to the same result as without fences.
C10_FencedObjectParsesAlike ==
    val # <<>> =>
        /\ C10_Precedence
        /\ IsJsonObject(arg) => _parse_json_response(Fenced(arg)) = val[1].parsed

\* C10 amended: the same precedence; and a JSON object whose text contains no
\* fence marker parses, in a JSON-tagged fence, to the same result as without
\* fences.
C10_FenceFreeObjectParsesAlike ==
    val # <<>> =>
        /\ C10_Precedence
        /\ (IsJsonObject(arg) /\ ~HasFence(arg)) =>
            /\ _parse_json_response(Fenced(arg)) = val[1].parsed
            /\ val[1].parsed = json_loads(arg)

C10_Witness ==
    /\ val # <<>>
    /\ HasTaggedFence(arg)
    /\ FenceFrom(arg, 1) + 2 < FirstTaggedFence(arg)
    /\ val[1].parsed.error = NoError
    /\ val[1].parsed.value = Documents[DocTrack]

\* an IntentResult with its primary and secondary set
IsIntentResult(r) ==
    /\ DOMAIN r = {"primary", "secondary", "reasoning"}
    /\ r.primary # ""
    /\ r.secondary # ""

\* the fallback resolver ran for request i: in classify after the last failed
\* attempt, or in the worker that caught the error classify raised
FallbackRan(i) ==
    /\ AllFailed(i)
    /\ \/ fallback_enabled
       \/ ParallelMode /\ pc[i] = "done"

FallbackOutput(i) == IF fallback_enabled THEN ret[i].result ELSE results[i][1]

\* C11: the fallback resolver returns an IntentResult for the request and the
\* error reason it is given, raises nothing and calls the service never: a
\* classify invocation makes at most max_retries + 1 calls of the service, and
\* exactly that many when it ends in the fallback.
C11_FallbackTotalAndLocal ==
    \A i \in 1..Len(messages) :
        /\ ncalls[i] <= max_retries + 1
        /\ fallback_enabled => ret[i].kind # "raise"
        /\ FallbackRan(i) =>
            /\ IsIntentResult(FallbackOutput(i))
            /\ FallbackTagged(FallbackOutput(i))
            /\ ncalls[i] = max_retries + 1

C11_Witness ==
    /\ batch = "returned"
    /\ ParallelMode
    /\ ~fallback_enabled
    /\ max_retries >= 1
    /\ \E i \in 1..Len(messages) :
        /\ FallbackRan(i)
        /\ ncalls[i] = max_retries + 1
        /\ FallbackTagged(out.value[i])

\* the intent taxonomy of the system prompt: the secondaries of each primary
Taxonomy ==
    ("Basic Interactions" :> {"greetings", "acknowledgment", "language_preference"}) @@
    ("About Company" :> {"contact_details", "about_team", "company_name"}) @@
    ("About Product" :> {"product_info", "product_specialty", "product_usage_sequence",
                         "results_timeline", "safety_concerns", "product_ingredients",
                         "effectiveness", "pricing", "comparison", "certification",
                         "payment_options_available", "out_of_stock", "all_products",
                         "place_order", "no_query_uc"}) @@
    ("Recommendation" :> {"seeking_solution", "customer_problem", "customer_information"}) @@
    ("Logistics" :> {"order_status", "order_confirmation", "delivery_delay",
                     "address_change", "cancellation", "wrong_order",
                     "order_delivered_but_not_received", "delivery_contact",
                     "refund_required", "refund_policy", "return_policy", "payment",
                     "discount", "ecommerce_quick_commerce", "b2b_queries",
                     "website_issue", "account_management", "talk_to_agent",
                     "service_complaint", "product_complaint", "feedback"}) @@
    ("Special Categories" :> {"gibberish", "out_of_scope"})

InTaxonomy(primary, secondary) ==
    primary \in DOMAIN Taxonomy /\ secondary \in Taxonomy[primary]

\* C12: every IntentResult classify returns has a secondary of the taxonomy's
\* set for its primary; a response whose pair violates the taxonomy is never
\* returned as a result.
C12_ReturnedPairInTaxonomy ==
    (pc[1] = "exit" /\ ret[1].kind = "return") =>
        InTaxonomy(ret[1].result.primary, ret[1].result.secondary)

\* classify_batch took the sequential path
SequentialMode == ~ParallelMode /\ batch \in {"seq", "raised", "returned"}

\* C13: in sequential mode the requests are classified one at a time in input
\* order: at most one classify invocation is in progress, and none has started
\* for a request before the invocation for every earlier request is over.
C13_OneAtATimeInOrder ==
    /\ batch = "idle" => \A i \in 1..Len(messages) : pc[i] = "idle" /\ ncalls[i] = 0
    /\ SequentialMode =>
        /\ Cardinality({i \in 1..Len(messages) : pc[i] \in {"loop", "exit"}}) <= 1
        /\ \A i, j \in 1..Len(messages) :
            (i < j /\ (pc[j] # "idle" \/ ncalls[j] > 0)) =>
                /\ pc[i] = "done"
                /\ ret[i].kind = "return"

C13_Witness ==
    /\ batch = "seq"
    /\ ~parallel
    /\ max_retries >= 1
    /\ Len(messages) >= 2
    /\ pc[1] = "done"
    /\ AllFailed(1)
    /\ FallbackTagged(results[1][1])
    /\ pc[2] = "loop"
    /\ ncalls[2] = 1

\* the outcome of the k-th call of the service for request i, where the
\* outcomes are fixed beforehand, and what the try block makes of it
OutcomeOf(i, k) ==
    CHOOSE how \in remote[i][IF k <= Len(remote[i]) THEN k ELSE Len(remote[i])] : TRUE
TryOf(i, k) ==
    TryBody(generate_content(OutcomeOf(i, k), Prompt(messages[i][2], messages[i][1])))

\* the attempts, within the limit, whose call and parse both succeed
GoodAttempts(i) == {k \in 1..(max_retries + 1) : TryOf(i, k).error = NoError}
FirstGood(i) == CHOOSE k \in GoodAttempts(i) : \A m \in GoodAttempts(i) : k <= m

\* C14: when attempt k is the first whose call and parse both succeed, classify
\* returns the result parsed in attempt k, makes k calls of the service and no
\* more, and neither falls back nor raises, whatever the earlier attempts
\* failed with.
C14_FirstSuccessReturns ==
    GoodAttempts(1) # {} =>
        /\ ncalls[1] <= FirstGood(1)
        /\ ret[1].kind # "raise"
        /\ pc[1] = "loop" => ncalls[1] < FirstGood(1)
        /\ pc[1] = "exit" =>
            /\ ncalls[1] = FirstGood(1)
            /\ ret[1] = Returned(TryOf(1, FirstGood(1)).result)
            /\ ~FallbackTagged(ret[1].result)

C14_Witness ==
    /\ pc[1] = "exit"
    /\ GoodAttempts(1) # {}
    /\ FirstGood(1) >= 2
    /\ TryOf(1, 1).error.type = "RemoteError"
    /\ ret[1].kind = "return"
    /\ ret[1].result = RemoteAnswer(messages[1])

\* a step of the executor path writes a slot only if the slot is empty and the
\* step is the store of the worker of that index
SlotWrittenByItsWorker ==
    batch = "par" =>
        \A k \in 1..Len(messages) :
            results'[k] # results[k] =>
                /\ results[k] = None
                /\ results'[k] # None
                /\ pc[k] = "exit"
                /\ pc'[k] = "done"

\* the filled slots are those of the workers that stored, and at the return
\* every slot is filled and the filter drops nothing
SlotsFilledAtReturn ==
    /\ batch = "par" =>
        \A k \in 1..Len(messages) : results[k] # None <=> pc[k] = "done"
    /\ (batch = "returned" /\ ParallelMode) =>
        /\ \A k \in 1..Len(messages) : results[k] # None
        /\ Len(out.value) = Len(messages)
        /\ \A k \in 1..Len(messages) : out.value[k] = results[k][1]

\* C15: in parallel mode every slot is written exactly once, by the worker of
\* its index (never twice, never by another worker), and when classify_batch
\* returns no slot is empty, so the final filter removes nothing.
C15_SlotsWrittenOnce == []SlotsFilledAtReturn /\ [][SlotWrittenByItsWorker]_vars

C15_Witness ==
    /\ batch = "returned"
    /\ ParallelMode
    /\ Len(out.value) = Len(messages)
    /\ \E i, j \in 1..Len(messages) :
        /\ ret[i].kind = "raise"
        /\ results[i] # None
        /\ ret[j].kind = "return"
        /\ results[j] = <<ret[j].result>>

\* a step changes the attempt counter or the last error of request i only as
\* an attempt of request i, and then leaves the retry state of the others alone
RetryStateChangedByOwner ==
    \A i \in 1..Len(messages) :
        (attempts'[i] # attempts[i] \/ last_error'[i] # last_error[i]) =>
            /\ pc[i] = "loop"
            /\ ncalls'[i] = ncalls[i] + 1
            /\ attempts'[i] = attempts[i] + 1
            /\ \A j \in 1..Len(messages) \ {i} :
                /\ attempts'[j] = attempts[j]
                /\ last_error'[j] = last_error[j]
                /\ ncalls'[j] = ncalls[j]

\* every request has its own max_retries + 1 attempts
OwnBudget ==
    /\ \A i \in 1..Len(messages) :
        /\ ncalls[i] <= max_retries + 1
        /\ attempts[i] <= ncalls[i]
        /\ AllFailed(i) => attempts[i] = max_retries + 1
    /\ Total(ncalls) <= Len(messages) * (max_retries + 1)

\* C16: the attempt counter and last error of a request change only in that
\* request's own attempts, so in a parallel batch a request whose attempts all
\* fail has had max_retries + 1 of them whatever the others did, and a batch of
\* n requests makes at most n * (max_retries + 1) calls of the service.
C16_RetryStateIsPrivate == []OwnBudget /\ [][RetryStateChangedByOwner]_vars

C16_Witness ==
    /\ batch = "par"
    /\ max_retries >= 1
    /\ \E i, j \in 1..Len(messages) :
        /\ i # j
        /\ AllFailed(j)
        /\ ncalls[j] = max_retries + 1
        /\ pc[i] = "loop"
        /\ attempts[i] = 1
        /\ last_error[i] # last_error[j]

\* what classify returns for request i when the outcomes of its calls are
\* fixed and fallback is enabled: attempt k onwards, err the last error so far
RECURSIVE ClassifyFrom(_, _, _)
ClassifyFrom(i, k, err) ==
    IF k > max_retries + 1
    THEN _build_fallback_result(err.text, messages[i][2], messages[i][1])
    ELSE IF TryOf(i, k).error = NoError THEN TryOf(i, k).result
    ELSE ClassifyFrom(i, k + 1, TryOf(i, k).error)

\* C17: with fallback enabled and the outcome of each call fixed per request,
\* the list classify_batch returns is the same in sequential and in parallel
\* mode, for every max_workers and every interleaving: in either mode entry i
\* is what classify gives request i under its outcomes.
C17_ParallelEqualsSequential ==
    (batch = "returned" /\ fallback_enabled) =>
        out.value = [i \in 1..Len(messages) |-> ClassifyFrom(i, 1, NoError)]

C17_Witness ==
    /\ batch = "returned"
    /\ fallback_enabled
    /\ ParallelMode
    /\ max_workers >= 2
    /\ Len(messages) >= 2
    /\ GoodAttempts(1) = {}
    /\ FallbackTagged(out.value[1])
    /\ GoodAttempts(2) # {}
    /\ FirstGood(2) >= 2
    /\ out.value[2] = RemoteAnswer(messages[2])

\* at the return of the executor path every worker has finished and stored
AllWorkersDoneAtReturn ==
    (batch = "returned" /\ ParallelMode) =>
        \A i \in 1..Len(messages) : pc[i] = "done" /\ results[i] # None

\* after the return no invocation takes a step and no slot changes
NothingAfterReturn ==
    batch = "returned" => UNCHANGED <<results, pc, ncalls, attempts, ret>>

\* C18: when every call of the service returns or fails, a parallel
\* classify_batch returns in the end, and only after every submitted worker
\* has finished: at the return no classification is in progress, and no slot
\* is written afterwards.
C18_ParallelBatchReturns ==
    /\ (batch = "par") ~> (batch = "returned")
    /\ []AllWorkersDoneAtReturn
    /\ [][NothingAfterReturn]_vars

C18_Witness ==
    /\ batch = "returned"
    /\ ParallelMode
    /\ Len(messages) > max_workers
    /\ max_retries >= 1
    /\ \E i \in 1..Len(messages) : AllFailed(i) /\ ncalls[i] = max_retries + 1
    /\ \A i \in 1..Len(messages) : pc[i] = "done"

\* what the try block makes of the last attempt classify can make
LastTry(i) == TryOf(i, max_retries + 1)

\* C19: when every attempt of a classify invocation fails, whatever the kinds
\* of the failures, the outcome is that of the last attempt's failure alone:
\* with fallback enabled the fallback result built from the last attempt's
\* error text, which its reasoning carries; with fallback disabled the error
\* raised for the last attempt's failure.
C19_LastErrorDecides ==
    (pc[1] = "exit" /\ GoodAttempts(1) = {}) =>
        /\ ncalls[1] = max_retries + 1
        /\ last_error[1] = LastTry(1).error
        /\ fallback_enabled =>
            /\ ret[1] = Returned(_build_fallback_result(LastTry(1).error.text,
                                                       messages[1][2], messages[1][1]))
            /\ Contains(LastTry(1).error.text, ret[1].result.reasoning)
        /\ ~fallback_enabled =>
            ret[1] = Raised(RaisedError(LastTry(1).error, LastTry(1).text))

C19_Witness ==
    /\ pc[1] = "exit"
    /\ max_retries >= 1
    /\ GoodAttempts(1) = {}
    /\ ~fallback_enabled
    /\ TryOf(1, 1).error.type = "JSONDecodeError"
    /\ LastTry(1).error.type = "RemoteError"
    /\ response_text[1] # <<>>
    /\ RaisedKind(ret[1].error) = "transport"

\* the pairs of the keyword rules, and the default pair
RulePairs == {<<rules[k].primary, rules[k].secondary>> : k \in 1..Len(rules)}
DefaultPair == <<"Special Categories", "out_of_scope">>

\* C20: every result of the fallback path is a valid taxonomy pair, one of the
\* seven rule pairs (each a secondary with its declared primary, Logistics or
\* Basic Interactions) or the default ("Special Categories", "out_of_scope"),
\* and its reasoning is non-empty and marks the result as a fallback.
C20_FallbackPairIsValid ==
    /\ Cardinality(RulePairs) = 7
    /\ \A p \in RulePairs :
        p[1] \in {"Logistics", "Basic Interactions"} /\ InTaxonomy(p[1], p[2])
    /\ val.match # <<>> => val.match[1] \in RulePairs \cup {None}
    /\ val.result # <<>> =>
        /\ <<val.result[1].primary, val.result[1].secondary>> \in RulePairs \cup {DefaultPair}
        /\ InTaxonomy(val.result[1].primary, val.result[1].secondary)
        /\ val.result[1].reasoning # <<>>
        /\ FallbackTagged(val.result[1])

C20_Witness ==
    /\ val.result # <<>>
    /\ arg.message # <<>>
    /\ arg.history # <<>>
    /\ val.result[1].primary = "Basic Interactions"
    /\ val.result[1].secondary = "language_preference"
    /\ FallbackTagged(val.result[1])
====
